---- MODULE Spec2Model ----
(***************************************************************************)
(* Model of server.js (whympireventures/backend): an Express server that   *)
(* loads static JSON datasets at startup and answers read-only GET routes. *)
(* src/server.js holds three variants of the server; they are modelled as  *)
(* one server owning the union of their datasets (rock, spring, cities,    *)
(* old, color), each dataset loaded the way its variant loads it.          *)
(*                                                                         *)
(* Numbers.  A JavaScript number is a record: Fin(v) (finite, an integer   *)
(* in fixed point), NaN or PosInf.  Miles are counted in thousandths of a  *)
(* mile, kilometres in whole kilometres, angles in whole degrees.          *)
(* Coordinates lie on a 60-degree grid, on which sin^2 and cos are         *)
(* rational and the haversine intermediate `a` is a multiple of 1/16.      *)
(***************************************************************************)
EXTENDS Integers, Sequences, FiniteSets, TLC

VARIABLES pc, files, rockCities, springCities, cities, oldCities,
          colorCities, req, res

vars == <<pc, files, rockCities, springCities, cities, oldCities,
          colorCities, req, res>>

store == <<rockCities, springCities, cities, oldCities, colorCities>>

(* ------------------------------ bounds -------------------------------- *)
\* longest cities.json array explored by the query specification
MaxCities == 3

(* -------------------------- JavaScript numbers ------------------------ *)
Fin(v) == [k |-> "fin", v |-> v]
NaN == [k |-> "nan", v |-> 0]
PosInf == [k |-> "inf", v |-> 1]
NegInf == [k |-> "inf", v |-> -1]

\* Number.isFinite(x)
IsFinite(x) == x.k = "fin"

\* a <= b for a finite integer a and a number b (false when b is NaN)
LteNum(a, b) ==
  CASE b.k = "fin" -> a <= b.v
    [] b.k = "inf" -> b.v > 0
    [] OTHER -> FALSE

\* a >= b for a finite integer a and a number b (false when b is NaN)
GteNum(a, b) ==
  CASE b.k = "fin" -> a >= b.v
    [] b.k = "inf" -> b.v < 0
    [] OTHER -> FALSE

\* x + y
AddNum(x, y) ==
  CASE x.k = "nan" \/ y.k = "nan" -> NaN
    [] x.k = "inf" /\ y.k = "inf" -> IF x.v = y.v THEN x ELSE NaN
    [] x.k = "inf" -> x
    [] y.k = "inf" -> y
    [] OTHER -> Fin(x.v + y.v)

\* -x
NegNum(x) ==
  CASE x.k = "nan" -> NaN
    [] x.k = "inf" -> [k |-> "inf", v |-> 0 - x.v]
    [] OTHER -> Fin(0 - x.v)

\* x - y
SubNum(x, y) == AddNum(x, NegNum(y))

\* Math.max(0, x): NaN if x is NaN
MaxZero(x) ==
  CASE x.k = "nan" -> NaN
    [] x.k = "inf" -> IF x.v > 0 THEN x ELSE Fin(0)
    [] OTHER -> IF x.v > 0 THEN x ELSE Fin(0)

\* Math.abs on a finite integer
Abs(n) == IF n < 0 THEN 0 - n ELSE n

(* ------------------------- query-string values ------------------------ *)
\* req.query.<p> is undefined (parameter absent) or a string.  A string is
\* described by its form: "empty" (''), "text" (no numeric prefix, 'abc'),
\* "num" (a decimal literal of value v), "numtext" (a decimal literal of
\* value v followed by other characters, '60abc'), "inf" ('Infinity').
Undefined == [k |-> "undefined", form |-> "none", v |-> 0]
Str(form, v) == [k |-> "str", form |-> form, v |-> v]

\* JavaScript truthiness of a query value: undefined and '' are falsy
Truthy(raw) == raw.k = "str" /\ raw.form # "empty"

\* raw || dflt
OrDefault(raw, dflt) == IF Truthy(raw) THEN raw ELSE dflt

\* parseFloat(raw): the longest numeric prefix, NaN when there is none
ParseFloat(raw) ==
  CASE raw.k = "undefined" -> NaN
    [] raw.form = "num" -> Fin(raw.v)
    [] raw.form = "numtext" -> Fin(raw.v)
    [] raw.form = "inf" -> PosInf
    [] OTHER -> NaN

(* ------------------------ great-circle distance ----------------------- *)
\* Math.sin(toRad(d) / 2) ** 2, times 4, for d a multiple of 60 degrees
Sin2Half4(d) ==
  LET m == d % 360 IN
  CASE m = 0 -> 0
    [] m = 60 -> 1
    [] m = 120 -> 3
    [] m = 180 -> 4
    [] m = 240 -> 3
    [] m = 300 -> 1

\* Math.cos(toRad(lat)), times 2, for lat in {-60, 0, 60}
Cos2(lat) == IF lat = 0 THEN 2 ELSE 1

\* R * 2 * atan2(sqrt(a), sqrt(1 - a)) with R = 6371, in whole kilometres,
\* indexed by 16 * a
ArcKm == [a16 \in 0..16 |->
  CASE a16 = 0 -> 0
    [] a16 = 1 -> 3220
    [] a16 = 2 -> 4605
    [] a16 = 3 -> 5706
    [] a16 = 4 -> 6672
    [] a16 = 5 -> 7559
    [] a16 = 6 -> 8398
    [] a16 = 7 -> 9209
    [] a16 = 8 -> 10008
    [] a16 = 9 -> 10806
    [] a16 = 10 -> 11617
    [] a16 = 11 -> 12457
    [] a16 = 12 -> 13343
    [] a16 = 13 -> 14309
    [] a16 = 14 -> 15411
    [] a16 = 15 -> 16795
    [] a16 = 16 -> 20015]

haversineKm(lat1, lon1, lat2, lon2) ==
  LET dLat == lat2 - lat1
      dLon == lon2 - lon1
      a16 == 4 * Sin2Half4(dLat) + Cos2(lat1) * Cos2(lat2) * Sin2Half4(dLon)
  IN ArcKm[a16]

\* km * 0.621371, in thousandths of a mile
kmToMiles(km) == km * 621 + (km * 371) \div 1000

(* ------------------------------ arrays -------------------------------- *)
Front(s) == SubSeq(s, 1, Len(s) - 1)
Last(s) == s[Len(s)]
Range(s) == {s[i] : i \in DOMAIN s}

\* arr.map(f) for f given as a function on the elements of arr
ArrayMap(arr, f) == [i \in DOMAIN arr |-> f[arr[i]]]

\* arr.filter(keep) for keep given as the set of elements to keep
ArrayFilter(arr, keep) ==
  LET Kept(x) == x \in keep IN SelectSeq(arr, Kept)

\* a sort step that also moves x left past the elements that compare equal
RECURSIVE InsertSortedUnstable(_, _, _)
InsertSortedUnstable(sorted, x, cmp) ==
  IF sorted = <<>> THEN <<x>>
  ELSE IF cmp[<<Last(sorted), x>>] >= 0
       THEN Append(InsertSortedUnstable(Front(sorted), x, cmp), Last(sorted))
       ELSE Append(sorted, x)

\* one step of the insertion sort Array.prototype.sort runs on short
\* arrays: x moves left past every element that compares greater
RECURSIVE InsertSorted(_, _, _)
InsertSorted(sorted, x, cmp) ==
  IF sorted = <<>> THEN <<x>>
  ELSE IF cmp[<<Last(sorted), x>>] > 0
       THEN Append(InsertSorted(Front(sorted), x, cmp), Last(sorted))
       ELSE Append(sorted, x)

\* arr.sort(cmp): a stable sort (ECMAScript 2019), cmp a function on pairs
RECURSIVE ArraySort(_, _)
ArraySort(arr, cmp) ==
  IF arr = <<>> THEN <<>>
  ELSE InsertSorted(ArraySort(Front(arr), cmp), Last(arr), cmp)

(* ---------------------------- JSON values ----------------------------- *)
\* A module-level dataset variable holds an array, an object (its entries
\* in key order, each <<key, array>>) or undefined.
Arr(items) == [t |-> "array", v |-> items]
Obj(entries) == [t |-> "object", v |-> entries]
Undef == [t |-> "undefined", v |-> <<>>]

(* ----------------------------- responses ------------------------------ *)
\* res.json(body)
Json(body) == [status |-> 200, body |-> body]
\* res.status(code).json({error: message})
ErrorJson(code, message) == [status |-> code, body |-> [error |-> message]]
\* a handler threw: Express's default error handler answers 500
Thrown == [status |-> 500, body |-> [error |-> "TypeError"]]

(* --------------------------- /api/cities/near ------------------------- *)
\* the default radius, in miles
DefaultRadiusMiles == 25
\* the default epsilon, in miles
DefaultEpsilonMiles == 1

\* { ...city, distanceMiles: miles }
Annotate(city, miles) ==
  [f \in (DOMAIN city) \cup {"distanceMiles"} |->
     IF f = "distanceMiles" THEN miles ELSE city[f]]

\* the map callback of both proximity handlers
WithDistance(city, lat, lon) ==
  Annotate(city, kmToMiles(haversineKm(lat, lon, city.lat, city.lon)))

\* a filter that leaves out the record exactly at the radius
NearKeepStrict(c, radiusMiles) ==
  LteNum(c.distanceMiles, radiusMiles) /\ Fin(c.distanceMiles) # radiusMiles

\* (c) => c.distanceMiles <= radiusMiles
NearKeep(c, radiusMiles) == LteNum(c.distanceMiles, radiusMiles)

\* a comparator that sorts farthest first
NearCmpDescending(a, b) == b.distanceMiles - a.distanceMiles

\* (a, b) => a.distanceMiles - b.distanceMiles
NearCmp(a, b) == a.distanceMiles - b.distanceMiles

\* cities.map(...).filter(...).sort(...) of the near handler
NearOut(cs, lat, lon, radiusMiles) ==
  LET mapped == ArrayMap(cs, [c \in Range(cs) |-> WithDistance(c, lat, lon)])
      filtered == ArrayFilter(mapped,
                    {c \in Range(mapped) : NearKeep(c, radiusMiles)})
      cmp == [p \in Range(filtered) \X Range(filtered) |-> NearCmp(p[1], p[2])]
  IN ArraySort(filtered, cmp)

NearError == ErrorJson(400, "lat and lon are required (numbers)")

\* a handler that validates but goes on after answering 400
NearRepliesNoReturn(data, q) ==
  LET lat == ParseFloat(q.lat)
      lon == ParseFloat(q.lon)
      radiusMiles == ParseFloat(OrDefault(q.radiusMiles,
                                          Str("num", DefaultRadiusMiles * 1000)))
      bad == ~IsFinite(lat) \/ ~IsFinite(lon)
  IN (IF bad THEN <<NearError>> ELSE <<>>)
     \o (IF data.t # "array" THEN <<Thrown>>
         ELSE IF bad THEN <<Json(<<>>)>>
         ELSE <<Json(NearOut(data.v, lat.v, lon.v, radiusMiles))>>)

\* a handler that answers 404 when nothing is in range
NearRepliesNotFound(data, q) ==
  LET lat == ParseFloat(q.lat)
      lon == ParseFloat(q.lon)
      radiusMiles == ParseFloat(OrDefault(q.radiusMiles,
                                          Str("num", DefaultRadiusMiles * 1000)))
  IN IF ~IsFinite(lat) \/ ~IsFinite(lon) THEN <<NearError>>
     ELSE IF data.t # "array" THEN <<Thrown>>
     ELSE LET out == NearOut(data.v, lat.v, lon.v, radiusMiles)
          IN IF out = <<>> THEN <<ErrorJson(404, "no cities")>>
             ELSE <<Json(out)>>

\* the responses the near handler sends for query q over dataset `data`
NearReplies(data, q) ==
  LET lat == ParseFloat(q.lat)
      lon == ParseFloat(q.lon)
      radiusMiles == ParseFloat(OrDefault(q.radiusMiles,
                                          Str("num", DefaultRadiusMiles * 1000)))
  IN IF ~IsFinite(lat) \/ ~IsFinite(lon) THEN <<NearError>>
     ELSE IF data.t # "array" THEN <<Thrown>>
     ELSE <<Json(NearOut(data.v, lat.v, lon.v, radiusMiles))>>

(* --------------------------- /api/cities/exact ------------------------ *)
\* a filter whose upper bound is exclusive
ExactKeepExclusive(c, min, max) ==
  /\ GteNum(c.distanceMiles, min)
  /\ LteNum(c.distanceMiles, max)
  /\ Fin(c.distanceMiles) # max

\* (c) => c.distanceMiles >= min && c.distanceMiles <= max
ExactKeep(c, min, max) ==
  GteNum(c.distanceMiles, min) /\ LteNum(c.distanceMiles, max)

\* a comparator that forgets Math.abs
ExactCmpSigned(a, b, milesTarget) ==
  (a.distanceMiles - milesTarget) - (b.distanceMiles - milesTarget)

\* (a, b) => Math.abs(a.distanceMiles - milesTarget)
\*           - Math.abs(b.distanceMiles - milesTarget)
ExactCmp(a, b, milesTarget) ==
  Abs(a.distanceMiles - milesTarget) - Abs(b.distanceMiles - milesTarget)

\* cities.map(...).filter(...).sort(...) of the exact handler
ExactOut(cs, lat, lon, milesTarget, epsilon) ==
  LET min == MaxZero(SubNum(Fin(milesTarget), epsilon))
      max == AddNum(Fin(milesTarget), epsilon)
      mapped == ArrayMap(cs, [c \in Range(cs) |-> WithDistance(c, lat, lon)])
      filtered == ArrayFilter(mapped,
                    {c \in Range(mapped) : ExactKeep(c, min, max)})
      cmp == [p \in Range(filtered) \X Range(filtered) |->
                ExactCmp(p[1], p[2], milesTarget)]
  IN ArraySort(filtered, cmp)

ExactError == ErrorJson(400, "lat, lon, and miles are required (numbers)")

\* the responses the exact handler sends for query q over dataset `data`
ExactReplies(data, q) ==
  LET lat == ParseFloat(q.lat)
      lon == ParseFloat(q.lon)
      milesTarget == ParseFloat(q.miles)
      epsilon == ParseFloat(OrDefault(q.epsilon,
                                      Str("num", DefaultEpsilonMiles * 1000)))
  IN IF ~IsFinite(lat) \/ ~IsFinite(lon) \/ ~IsFinite(milesTarget)
     THEN <<ExactError>>
     ELSE IF data.t # "array" THEN <<Thrown>>
     ELSE <<Json([targetMiles |-> milesTarget,
                  epsilon |-> epsilon,
                  results |-> ExactOut(data.v, lat.v, lon.v,
                                       milesTarget.v, epsilon)])>>

(* ------------------------------ strings ------------------------------- *)
\* A string of a dataset or of a route parameter is a tuple of characters.
Chars == {" ", "A", "B", "C", "L", "M", "T", "U", "X", "Z",
          "a", "b", "c", "l", "m", "t", "u", "x", "z"}

\* the UTF-16 code unit of a character
CharCode(c) ==
  CASE c = " " -> 32
    [] c = "A" -> 65 [] c = "B" -> 66 [] c = "C" -> 67 [] c = "L" -> 76
    [] c = "M" -> 77 [] c = "T" -> 84 [] c = "U" -> 85 [] c = "X" -> 88
    [] c = "Z" -> 90
    [] c = "a" -> 97 [] c = "b" -> 98 [] c = "c" -> 99 [] c = "l" -> 108
    [] c = "m" -> 109 [] c = "t" -> 116 [] c = "u" -> 117 [] c = "x" -> 120
    [] c = "z" -> 122

\* the character of a code unit
FromCode(n) == CHOOSE c \in Chars : CharCode(c) = n

\* String.prototype.toLowerCase
ToLowerCase(str) ==
  [i \in DOMAIN str |->
     IF CharCode(str[i]) >= 65 /\ CharCode(str[i]) <= 90
     THEN FromCode(CharCode(str[i]) + 32) ELSE str[i]]

\* String.prototype.trim
RECURSIVE Trim(_)
Trim(str) ==
  IF str = <<>> THEN <<>>
  ELSE IF Head(str) = " " THEN Trim(Tail(str))
  ELSE IF Last(str) = " " THEN Trim(Front(str))
  ELSE str

\* String.prototype.includes
Includes(str, part) ==
  \E i \in 1..(Len(str) - Len(part) + 1) :
    SubSeq(str, i, i + Len(part) - 1) = part

\* the default comparison of Array.prototype.sort on two strings:
\* negative, zero or positive by UTF-16 code units
RECURSIVE StrCmp(_, _)
StrCmp(a, b) ==
  IF a = <<>> /\ b = <<>> THEN 0
  ELSE IF a = <<>> THEN -1
  ELSE IF b = <<>> THEN 1
  ELSE IF CharCode(Head(a)) # CharCode(Head(b))
       THEN CharCode(Head(a)) - CharCode(Head(b))
  ELSE StrCmp(Tail(a), Tail(b))

\* arr.sort() on an array of strings
SortStrings(arr) ==
  ArraySort(arr, [p \in Range(arr) \X Range(arr) |-> StrCmp(p[1], p[2])])

\* [...new Set(arr)]: the first occurrence of each element, in order
RECURSIVE Uniq(_)
Uniq(arr) ==
  IF arr = <<>> THEN <<>>
  ELSE LET rest == Uniq(Front(arr))
       IN IF Last(arr) \in Range(rest) THEN rest ELSE Append(rest, Last(arr))

(* ---------------------------- transformers ---------------------------- *)
\* Object.keys(data)
ObjectKeys(data) == [i \in DOMAIN data.v |-> data.v[i].key]

\* data[key] || []
GroupOrEmpty(data, key) ==
  IF \E i \in DOMAIN data.v : data.v[i].key = key
  THEN data.v[CHOOSE i \in DOMAIN data.v : data.v[i].key = key].items
  ELSE <<>>

\* { ...item, state }
WithState(item, state) ==
  [f \in (DOMAIN item) \cup {"state"} |->
     IF f = "state" THEN state ELSE item[f]]

\* Object.keys(data).flatMap((state) => data[state].map(...))
RECURSIVE FlatMapEntries(_)
FlatMapEntries(entries) ==
  IF entries = <<>> THEN <<>>
  ELSE LET e == Head(entries)
       IN [i \in DOMAIN e.items |-> WithState(e.items[i], e.key)]
          \o FlatMapEntries(Tail(entries))

flattenStateGroupedData(data) == FlatMapEntries(data.v)

\* rockCities.map((item) => item.state)
States(items) == [i \in DOMAIN items |-> items[i].state]

(* --------------------------- /api/cities/by-name ---------------------- *)
\* const { name = '' } = req.query: the default replaces undefined only
DefaultEmpty(raw) == IF raw.k = "undefined" THEN <<>> ELSE raw.s

\* the filter callback of the by-name handler
ByNameKeep(city, n, a, c) ==
  LET okName == IF n # <<>> THEN Includes(ToLowerCase(city.name), n) ELSE TRUE
      admin1 == IF "admin1" \in DOMAIN city THEN city.admin1 ELSE <<>>
      okAdmin == IF a # <<>> THEN Includes(ToLowerCase(admin1), a) ELSE TRUE
      okCountry == IF c # <<>> THEN Includes(ToLowerCase(city.country), c)
                   ELSE TRUE
  IN okName /\ okAdmin /\ okCountry

ByNameReplies(data, q) ==
  LET n == Trim(ToLowerCase(DefaultEmpty(q.name)))
      a == Trim(ToLowerCase(DefaultEmpty(q.admin1)))
      c == Trim(ToLowerCase(DefaultEmpty(q.country)))
  IN IF data.t # "array" THEN <<Thrown>>
     ELSE <<Json(ArrayFilter(data.v,
                   {city \in Range(data.v) : ByNameKeep(city, n, a, c)}))>>

(* ------------------------- grouped-dataset routes --------------------- *)
\* res.json(rockCities.filter((item) => item.state === req.params.state))
LocationsByStateReplies(data, state) ==
  IF data.t # "array" THEN <<Thrown>>
  ELSE <<Json(ArrayFilter(data.v, {item \in Range(data.v) : item.state = state}))>>

\* res.json([...new Set(rockCities.map((item) => item.state))].sort())
StatesReplies(data) ==
  IF data.t # "array" THEN <<Thrown>>
  ELSE <<Json(SortStrings(Uniq(States(data.v))))>>

\* res.json(flattenStateGroupedData(data))
FlatReplies(data) ==
  IF data.t = "undefined" THEN <<Thrown>>
  ELSE IF data.t = "array" THEN <<Json(<<>>)>>
  ELSE <<Json(flattenStateGroupedData(data))>>

\* res.json(Object.keys(data).sort())
KeysReplies(data) ==
  IF data.t = "undefined" THEN <<Thrown>>
  ELSE IF data.t = "array" THEN <<Json(<<>>)>>
  ELSE <<Json(SortStrings(ObjectKeys(data)))>>

\* res.json(data[req.params.state] || [])
GroupReplies(data, state) ==
  IF data.t = "undefined" THEN <<Thrown>>
  ELSE IF data.t = "array" THEN <<Json(<<>>)>>
  ELSE <<Json(GroupOrEmpty(data, state))>>

\* the {total, states} entry of /api/stats for a grouped dataset
GroupStats(data) ==
  [total |-> Len(flattenStateGroupedData(data)),
   states |-> Len(ObjectKeys(data))]

\* the /api/stats handler
StatsReplies(rock, spring, cs, old, color) ==
  IF \/ rock.t # "array" \/ cs.t # "array"
     \/ spring.t # "object" \/ old.t # "object" \/ color.t # "object"
  THEN <<Thrown>>
  ELSE <<Json([rockCities |-> [total |-> Len(rock.v),
                               states |-> Len(Uniq(States(rock.v)))],
               springCities |-> GroupStats(spring),
               cities |-> [total |-> Len(cs.v),
                           countries |->
                             Len(Uniq([i \in DOMAIN cs.v |-> cs.v[i].country]))],
               oldCities |-> GroupStats(old),
               colorCities |-> GroupStats(color)])>>

(* -------------------------- data on the disk -------------------------- *)
\* a file is missing, unparsable, or holds a JSON value
Missing == [st |-> "missing", json |-> Undef]
Corrupt == [st |-> "corrupt", json |-> Undef]
Holds(json) == [st |-> "ok", json |-> json]

\* city records: A and A2 share their coordinates, A2 and C have no admin1
CityA == [name |-> <<"A", "b">>, lat |-> 0, lon |-> 0,
          country |-> <<"U">>, admin1 |-> <<"C", "a">>]
CityA2 == [name |-> <<"a">>, lat |-> 0, lon |-> 0, country |-> <<"U">>]
CityB == [name |-> <<"B">>, lat |-> 0, lon |-> 60,
          country |-> <<"M">>, admin1 |-> <<"b">>]
CityC == [name |-> <<"C", "b">>, lat |-> 60, lon |-> 60, country |-> <<"U">>]
CityPool == {CityA, CityA2, CityB, CityC}

\* every array of at most n city records
CityLists(n) == UNION {[1..m -> CityPool] : m \in 0..n}

TX == <<"T", "X">>
AL == <<"A", "L">>
ZZ == <<"Z", "Z">>

RockJson == Arr(<<[name |-> <<"a">>, state |-> TX],
                  [name |-> <<"b">>, state |-> AL],
                  [name |-> <<"c">>, state |-> TX]>>)
SpringJson == Obj(<<[key |-> TX, items |-> <<[name |-> <<"a">>],
                                             [name |-> <<"b">>]>>],
                    [key |-> AL, items |-> <<[name |-> <<"c">>]>>]>>)
CitiesJson == Arr(<<CityB, CityA, CityA2>>)
OldJson == Obj(<<[key |-> TX, items |-> <<[name |-> <<"m">>]>>]>>)
ColorJson == Obj(<<[key |-> ZZ, items |-> <<[name |-> <<"z">>]>>],
                   [key |-> AL, items |-> <<[name |-> <<"l">>]>>]>>)

FileNames == {"rock_cities.json", "spring_cities.json", "cities.json",
              "old_cities.json", "color-cities.json"}

GoodJson(file) ==
  CASE file = "rock_cities.json" -> RockJson
    [] file = "spring_cities.json" -> SpringJson
    [] file = "cities.json" -> CitiesJson
    [] file = "old_cities.json" -> OldJson
    [] file = "color-cities.json" -> ColorJson

\* every disk the startup may find: each file missing, unparsable or good
Disks == {d \in [FileNames -> {Missing, Corrupt} \cup {Holds(GoodJson(f)) : f \in FileNames}] :
            \A f \in FileNames : d[f].st = "ok" => d[f].json = GoodJson(f)}

(* ----------------------------- requests ------------------------------- *)
LatTokens == {Undefined, Str("text", 0), Str("num", 0), Str("numtext", 60),
              Str("inf", 0)}
LonTokens == {Undefined, Str("empty", 0), Str("num", 0), Str("num", 60)}
RadiusTokens == {Undefined, Str("empty", 0), Str("text", 0), Str("inf", 0),
                 Str("num", -1), Str("num", 0), Str("num", 25000),
                 Str("num", 4145786), Str("num", 4145787),
                 Str("num", 5218273)}
MilesTokens == {Undefined, Str("text", 0), Str("num", 500),
                Str("num", 4145787), Str("num", 4682030)}
EpsilonTokens == {Undefined, Str("text", 0), Str("num", 0),
                  Str("num", 536243)}

NearQueries == [lat : LatTokens, lon : LonTokens, radiusMiles : RadiusTokens]
ExactQueries == [lat : LatTokens, lon : LonTokens, miles : MilesTokens,
                 epsilon : EpsilonTokens]

Text(s) == [k |-> "str", s |-> s]
NameTokens == {Undefined, Text(<<>>), Text(<<"a">>), Text(<<" ", "B">>)}
Admin1Tokens == {Undefined, Text(<<"c">>)}
CountryTokens == {Undefined, Text(<<"U">>)}
ByNameQueries == [name : NameTokens, admin1 : Admin1Tokens,
                  country : CountryTokens]

StateParams == {TX, AL, ZZ}

NoRequest == [route |-> "none"]

(* ------------------------------ startup ------------------------------- *)
\* a readJSON that forgets to return the fallback
readJSONNoFallback(file, fallback) ==
  IF file.st = "ok" THEN file.json ELSE Undef

\* readJSON(file, fallback): JSON.parse(fs.readFileSync(...)) or, when
\* either throws, the fallback
readJSON(file, fallback) ==
  IF file.st = "ok" THEN file.json ELSE fallback

Init ==
  /\ pc = "load_rock"
  /\ files \in Disks
  /\ rockCities = Undef
  /\ springCities = Undef
  /\ cities = Undef
  /\ oldCities = Obj(<<>>)
  /\ colorCities = Obj(<<>>)
  /\ req = NoRequest
  /\ res = <<>>

\* let rockCities = readJSON('rock_cities.json', [])
LoadRock ==
  /\ pc = "load_rock"
  /\ rockCities' = readJSON(files["rock_cities.json"], Arr(<<>>))
  /\ pc' = "load_spring"
  /\ UNCHANGED <<files, springCities, cities, oldCities, colorCities, req, res>>

\* let springCities = readJSON('spring_cities.json', {})
LoadSpring ==
  /\ pc = "load_spring"
  /\ springCities' = readJSON(files["spring_cities.json"], Obj(<<>>))
  /\ pc' = "load_cities"
  /\ UNCHANGED <<files, rockCities, cities, oldCities, colorCities, req, res>>

\* let cities = readJSON('cities.json', [])
LoadCities ==
  /\ pc = "load_cities"
  /\ cities' = readJSON(files["cities.json"], Arr(<<>>))
  /\ pc' = "load_old"
  /\ UNCHANGED <<files, rockCities, springCities, oldCities, colorCities, req, res>>

\* try { oldCities = JSON.parse(...) } catch (error) { oldCities = {} }
LoadOld ==
  /\ pc = "load_old"
  /\ oldCities' = IF files["old_cities.json"].st = "ok"
                  THEN files["old_cities.json"].json
                  ELSE Obj(<<>>)
  /\ pc' = "load_color"
  /\ UNCHANGED <<files, rockCities, springCities, cities, colorCities, req, res>>

\* try { colorCities = JSON.parse(...) } catch (error) { console.error(...) }
LoadColor ==
  /\ pc = "load_color"
  /\ colorCities' = IF files["color-cities.json"].st = "ok"
                    THEN files["color-cities.json"].json
                    ELSE colorCities
  /\ pc' = "listen"
  /\ UNCHANGED <<files, rockCities, springCities, cities, oldCities, req, res>>

\* app.listen(PORT, ...)
Listen ==
  /\ pc = "listen"
  /\ pc' = "serving"
  /\ UNCHANGED <<files, store, req, res>>

(* --------------------------- route handlers --------------------------- *)
\* a handler that serves request r with the responses rs and writes
\* no dataset; handlers are synchronous, so requests are served one at a
\* time
Serve(r, rs) ==
  /\ pc = "serving"
  /\ req = NoRequest
  /\ req' = r
  /\ res' = rs
  /\ UNCHANGED <<pc, files, store>>

\* a near handler that sorts the module-level array itself
NearHandlerSortsCities ==
  \E q \in NearQueries :
    /\ pc = "serving"
    /\ req = NoRequest
    /\ req' = [route |-> "near", q |-> q]
    /\ res' = NearReplies(cities, q)
    /\ cities' = IF cities.t = "array" /\ IsFinite(ParseFloat(q.lat))
                    /\ IsFinite(ParseFloat(q.lon))
                 THEN Arr(ArraySort(cities.v,
                        [p \in Range(cities.v) \X Range(cities.v) |->
                           NearCmp(WithDistance(p[1], ParseFloat(q.lat).v,
                                                ParseFloat(q.lon).v),
                                   WithDistance(p[2], ParseFloat(q.lat).v,
                                                ParseFloat(q.lon).v))]))
                 ELSE cities
    /\ UNCHANGED <<pc, files, rockCities, springCities, oldCities, colorCities>>

NearHandler ==
  \E q \in NearQueries :
    Serve([route |-> "near", q |-> q], NearReplies(cities, q))

ExactHandler ==
  \E q \in ExactQueries :
    Serve([route |-> "exact", q |-> q], ExactReplies(cities, q))

ByNameHandler ==
  \E q \in ByNameQueries :
    Serve([route |-> "by-name", q |-> q], ByNameReplies(cities, q))

CitiesHandler == Serve([route |-> "cities"], <<Json(cities)>>)

LocationsHandler == Serve([route |-> "locations"], <<Json(rockCities)>>)

StatesHandler == Serve([route |-> "states"], StatesReplies(rockCities))

LocationsByStateHandler ==
  \E state \in StateParams :
    Serve([route |-> "locations/:state", state |-> state],
          LocationsByStateReplies(rockCities, state))

SpringsHandler == Serve([route |-> "springs"], <<Json(springCities)>>)

SpringsFlatHandler == Serve([route |-> "springs/flat"], FlatReplies(springCities))

SpringsStatesHandler ==
  Serve([route |-> "springs/states"], KeysReplies(springCities))

SpringsByStateHandler ==
  \E state \in StateParams :
    Serve([route |-> "springs/:state", state |-> state],
          GroupReplies(springCities, state))

OldsHandler == Serve([route |-> "olds"], <<Json(oldCities)>>)

OldsFlatHandler == Serve([route |-> "olds/flat"], FlatReplies(oldCities))

OldsStatesHandler == Serve([route |-> "olds/states"], KeysReplies(oldCities))

OldsByStateHandler ==
  \E state \in StateParams :
    Serve([route |-> "olds/:state", state |-> state],
          GroupReplies(oldCities, state))

ColorsHandler == Serve([route |-> "colors"], <<Json(colorCities)>>)

ColorsFlatHandler == Serve([route |-> "colors/flat"], FlatReplies(colorCities))

ColorsStatesHandler ==
  Serve([route |-> "colors/states"], KeysReplies(colorCities))

ColorsByStateHandler ==
  \E state \in StateParams :
    Serve([route |-> "colors/:state", state |-> state],
          GroupReplies(colorCities, state))

StatsHandler ==
  Serve([route |-> "stats"],
        StatsReplies(rockCities, springCities, cities, oldCities, colorCities))

PingHandler ==
  Serve([route |-> "ping"], <<Json([message |-> "Backend is running!"])>>)

\* the response is flushed and the event loop takes the next request
EndResponse ==
  /\ pc = "serving"
  /\ req # NoRequest
  /\ req' = NoRequest
  /\ res' = <<>>
  /\ UNCHANGED <<pc, files, store>>

Next ==
  \/ LoadRock
  \/ LoadSpring
  \/ LoadCities
  \/ LoadOld
  \/ LoadColor
  \/ Listen
  \/ NearHandler
  \/ ExactHandler
  \/ ByNameHandler
  \/ CitiesHandler
  \/ LocationsHandler
  \/ StatesHandler
  \/ LocationsByStateHandler
  \/ SpringsHandler
  \/ SpringsFlatHandler
  \/ SpringsStatesHandler
  \/ SpringsByStateHandler
  \/ OldsHandler
  \/ OldsFlatHandler
  \/ OldsStatesHandler
  \/ OldsByStateHandler
  \/ ColorsHandler
  \/ ColorsFlatHandler
  \/ ColorsStatesHandler
  \/ ColorsByStateHandler
  \/ StatsHandler
  \/ PingHandler
  \/ EndResponse

\* the server from the start of the process on
Spec == Init /\ [][Next]_vars

\* the state once the server listens, for any cities.json of at most
\* MaxCities records and the other files good
InitQuery ==
  /\ pc = "serving"
  /\ \E cs \in CityLists(MaxCities) :
       /\ files = [f \in FileNames |->
                     IF f = "cities.json" THEN Holds(Arr(cs))
                     ELSE Holds(GoodJson(f))]
       /\ cities = Arr(cs)
  /\ rockCities = RockJson
  /\ springCities = SpringJson
  /\ oldCities = OldJson
  /\ colorCities = ColorJson
  /\ req = NoRequest
  /\ res = <<>>

NextQuery == NearHandler \/ ExactHandler \/ EndResponse

\* the proximity queries over every small city list
SpecQuery == InitQuery /\ [][NextQuery]_vars

(* ======================= properties of the server ===================== *)
\* the parsed parameters of the request being answered
ReqLat == ParseFloat(req.q.lat)
ReqLon == ParseFloat(req.q.lon)
ReqRadius ==
  ParseFloat(OrDefault(req.q.radiusMiles, Str("num", DefaultRadiusMiles * 1000)))
ReqMiles == ParseFloat(req.q.miles)
ReqEpsilon ==
  ParseFloat(OrDefault(req.q.epsilon, Str("num", DefaultEpsilonMiles * 1000)))

\* a query value that is missing or has no numeric reading
NonNumeric(raw) == raw.k = "undefined" \/ raw.form \in {"empty", "text"}

\* the handler of `route` has answered the current request
Answered(route) == pc = "serving" /\ req.route = route /\ res # <<>>

\* the current request was answered once, with 200
OneOk == Len(res) = 1 /\ res[1].status = 200

\* how often x occurs in the sequence s
Count(s, x) == Cardinality({i \in DOMAIN s : s[i] = x})

\* the loaded city list, each record with its distance from the request's
\* centre, in dataset order
Measured == [i \in DOMAIN cities.v |->
               WithDistance(cities.v[i], ReqLat.v, ReqLon.v)]

\* the records of s at distance k, in the order of s
AtDistance(s, k) ==
  LET Hit(x) == x.distanceMiles = k IN SelectSeq(s, Hit)

\* the records of s among `kept` that are k away from the target t
AtGap(s, kept, t, k) ==
  LET Hit(x) == x \in kept /\ Abs(x.distanceMiles - t) = k IN SelectSeq(s, Hit)

\* s is a prefix of t
IsPrefix(s, t) == Len(s) <= Len(t) /\ SubSeq(t, 1, Len(s)) = s

\* C1: a near request with finite lat, lon and radiusMiles is answered with
\* exactly the records whose distanceMiles <= radiusMiles, each as often as
\* the city list holds it, the record exactly at the radius included.
C1_NearKeepsExactlyWithinRadius ==
  (Answered("near") /\ IsFinite(ReqLat) /\ IsFinite(ReqLon) /\ IsFinite(ReqRadius))
  => /\ OneOk
     /\ \A x \in Range(res[1].body) :
          x \in Range(Measured) /\ x.distanceMiles <= ReqRadius.v
     /\ \A x \in Range(Measured) :
          Count(res[1].body, x) =
            IF x.distanceMiles <= ReqRadius.v THEN Count(Measured, x) ELSE 0

\* a near answer that holds a record exactly at the radius and leaves a
\* farther record out
C1_Witness ==
  /\ Answered("near") /\ IsFinite(ReqLat) /\ IsFinite(ReqLon)
  /\ IsFinite(ReqRadius) /\ OneOk
  /\ \E x \in Range(res[1].body) : x.distanceMiles = ReqRadius.v /\ ReqRadius.v > 0
  /\ \E x \in Range(Measured) : x.distanceMiles > ReqRadius.v

\* C2: the answer of a near request is ordered by non-decreasing
\* distanceMiles, and the records at one distance keep the order they have
\* in the city list.
C2_NearSortedStable ==
  (Answered("near") /\ res[1].status = 200)
  => LET body == res[1].body IN
     /\ \A i, j \in DOMAIN body :
          i < j => body[i].distanceMiles <= body[j].distanceMiles
     /\ \A x \in Range(body) :
          AtDistance(body, x.distanceMiles) = AtDistance(Measured, x.distanceMiles)

\* a near answer with two different records at one distance, whose nearest
\* record is not the first record of the city list
C2_Witness ==
  /\ Answered("near") /\ res[1].status = 200
  /\ \E i, j \in DOMAIN res[1].body :
       /\ i < j
       /\ res[1].body[i].distanceMiles = res[1].body[j].distanceMiles
       /\ res[1].body[i] # res[1].body[j]
  /\ Measured[1].distanceMiles > res[1].body[1].distanceMiles

\* C3: an exact request with finite lat, lon, miles and epsilon is answered
\* with exactly the records whose distanceMiles lies in
\* [max(0, miles - epsilon), miles + epsilon], both ends included.
C3_ExactKeepsExactlyTheBand ==
  (Answered("exact") /\ IsFinite(ReqLat) /\ IsFinite(ReqLon)
     /\ IsFinite(ReqMiles) /\ IsFinite(ReqEpsilon))
  => LET lo == IF ReqMiles.v - ReqEpsilon.v > 0
               THEN ReqMiles.v - ReqEpsilon.v ELSE 0
         hi == ReqMiles.v + ReqEpsilon.v
     IN /\ OneOk
        /\ \A x \in Range(res[1].body.results) :
             x \in Range(Measured) /\ lo <= x.distanceMiles /\ x.distanceMiles <= hi
        /\ \A x \in Range(Measured) :
             Count(res[1].body.results, x) =
               IF lo <= x.distanceMiles /\ x.distanceMiles <= hi
               THEN Count(Measured, x) ELSE 0

\* an exact answer for miles < epsilon that holds a record at distance 0
C3_Witness ==
  /\ Answered("exact") /\ IsFinite(ReqLat) /\ IsFinite(ReqLon)
  /\ IsFinite(ReqMiles) /\ IsFinite(ReqEpsilon) /\ OneOk
  /\ ReqMiles.v < ReqEpsilon.v
  /\ \E x \in Range(res[1].body.results) : x.distanceMiles = 0

\* C4: the results of an exact request are ordered by non-decreasing
\* |distanceMiles - miles|, and the records at one such gap, below or above
\* the target, keep the order they have in the city list.
C4_ExactSortedByGapStable ==
  (Answered("exact") /\ res[1].status = 200)
  => LET out == res[1].body.results
         t == ReqMiles.v
     IN /\ \A i, j \in DOMAIN out :
             i < j => Abs(out[i].distanceMiles - t) <= Abs(out[j].distanceMiles - t)
        /\ \A x \in Range(out) :
             AtGap(out, Range(out), t, Abs(x.distanceMiles - t))
               = AtGap(Measured, Range(out), t, Abs(x.distanceMiles - t))

\* an exact answer where a record above the target precedes a record as far
\* below it
C4_Witness ==
  /\ Answered("exact") /\ res[1].status = 200
  /\ \E i, j \in DOMAIN res[1].body.results :
       LET a == res[1].body.results[i]
           b == res[1].body.results[j]
       IN /\ i < j
          /\ a.distanceMiles > ReqMiles.v
          /\ b.distanceMiles < ReqMiles.v
          /\ a.distanceMiles - ReqMiles.v = ReqMiles.v - b.distanceMiles

C6_BadRadiusFallsBackTo25 ==
  (Answered("near") /\ IsFinite(ReqLat) /\ IsFinite(ReqLon)
     /\ NonNumeric(req.q.radiusMiles))
  => /\ OneOk
     /\ res = NearReplies(cities, [req.q EXCEPT !.radiusMiles = Str("num", 25000)])

\* C7: over an empty city list a near request with finite lat and lon is
\* answered 200 with [], and an exact request with finite lat, lon and
\* miles is answered 200 with results = [] and the miles and epsilon used.
C7_EmptyListGivesEmptyAnswer ==
  /\ (Answered("near") /\ cities = Arr(<<>>) /\ IsFinite(ReqLat) /\ IsFinite(ReqLon))
     => (OneOk /\ res[1].body = <<>>)
  /\ (Answered("exact") /\ cities = Arr(<<>>) /\ IsFinite(ReqLat)
        /\ IsFinite(ReqLon) /\ IsFinite(ReqMiles))
     => /\ OneOk
        /\ res[1].body.results = <<>>
        /\ res[1].body.targetMiles = Fin(req.q.miles.v)
        /\ req.q.epsilon = Undefined => res[1].body.epsilon = Fin(1000)
        /\ (req.q.epsilon # Undefined /\ req.q.epsilon.form = "num")
             => res[1].body.epsilon = Fin(req.q.epsilon.v)

\* an exact request with an explicit epsilon answered over an empty city list
C7_Witness ==
  /\ Answered("exact") /\ cities = Arr(<<>>)
  /\ IsFinite(ReqLat) /\ IsFinite(ReqLon) /\ IsFinite(ReqMiles)
  /\ req.q.epsilon # Undefined /\ req.q.epsilon.form = "num"
  /\ res[1].status = 200

\* the dataset each file yields: its JSON value, or the empty collection
\* of the dataset's kind when the file is missing or unparsable
Expected(file, empty) == IF files[file].st = "ok" THEN files[file].json ELSE empty

\* C8: once the server listens, no step changes a dataset: the city list
\* and the grouped datasets stay as loaded through every request.
C8_HandlersWriteNoDataset ==
  [][pc = "serving" => store' = store]_vars

\* a near answer whose order differs from the order of the loaded city
\* list, which is still as the file holds it
C8_Witness ==
  /\ Answered("near") /\ res[1].status = 200
  /\ Len(res[1].body) = 3
  /\ res[1].body[1].name # cities.v[1].name
  /\ files["cities.json"].st = "ok"
  /\ cities = files["cities.json"].json

\* C9: whichever files are missing or unparsable, startup goes on to the
\* serving state, where each failed dataset is the empty array or mapping
\* and each other dataset is what its file holds, and no request is
\* answered with a server error.
C9_LoadIsFailSoft ==
  /\ pc # "serving" =>
       ENABLED (LoadRock \/ LoadSpring \/ LoadCities \/ LoadOld \/ LoadColor \/ Listen)
  /\ pc = "serving" =>
       /\ rockCities = Expected("rock_cities.json", Arr(<<>>))
       /\ springCities = Expected("spring_cities.json", Obj(<<>>))
       /\ cities = Expected("cities.json", Arr(<<>>))
       /\ oldCities = Expected("old_cities.json", Obj(<<>>))
       /\ colorCities = Expected("color-cities.json", Obj(<<>>))
  /\ \A i \in DOMAIN res : res[i].status < 500

\* a server whose rock and color files failed and whose other files loaded,
\* answering /api/stats with 200
C9_Witness ==
  /\ Answered("stats") /\ res[1].status = 200
  /\ files["rock_cities.json"].st = "missing"
  /\ files["color-cities.json"].st = "corrupt"
  /\ files["spring_cities.json"].st = "ok"
  /\ files["cities.json"].st = "ok"
  /\ files["old_cities.json"].st = "ok"
  /\ res[1].body.rockCities.total = 0
  /\ res[1].body.springCities.total = 3

\* the radii a near request can ask for, as numbers
Radii == {ParseFloat(OrDefault(raw, Str("num", DefaultRadiusMiles * 1000))) :
            raw \in RadiusTokens} \ {NaN}

\* r1 <= r2 for two numbers that are not NaN
LeqRadius(r1, r2) ==
  \/ r2 = PosInf
  \/ r1.k = "fin" /\ r2.k = "fin" /\ r1.v <= r2.v

\* C10: for one centre and one city list, the near answer for a radius is
\* a prefix of the near answer for every radius at least as large, and the
\* records that follow it are farther than the smaller radius.
C10_WiderRadiusOnlyAppends ==
  (Answered("near") /\ res[1].status = 200 /\ ReqRadius # NaN)
  => \A r2 \in Radii :
       LeqRadius(ReqRadius, r2) =>
         LET wide == NearOut(cities.v, ReqLat.v, ReqLon.v, r2) IN
         /\ IsPrefix(res[1].body, wide)
         /\ \A i \in (Len(res[1].body) + 1)..Len(wide) :
              ~LteNum(wide[i].distanceMiles, ReqRadius)

\* a near answer that is not empty and that a wider radius extends
C10_Witness ==
  /\ Answered("near") /\ res[1].status = 200 /\ IsFinite(ReqRadius)
  /\ Len(res[1].body) >= 2
  /\ Len(NearOut(cities.v, ReqLat.v, ReqLon.v, PosInf)) > Len(res[1].body)

====
